---- MODULE Spec2Model ----
(***************************************************************************)
(* A model of android-power-monitor: the radio (3G) monitor of             *)
(* src/monitors/threeg.py (classes ThreeG, ThreeGUsage and ThreeGState),    *)
(* the screen monitor of src/monitors/screen/oled.py (OLED, OLEDUsage) and  *)
(* the calibration lookup of src/phones/base.py (get_cpu_power).            *)
(*                                                                         *)
(* Reading of the source.  The file does not run as written: several        *)
(* identifiers name nothing (ThreeG.POWER_STATE_DCH for POWER_STATE_HIGH,   *)
(* self.POWER_STATE_IDLE inside ThreeGState, the bare delta_tx_bytes of     *)
(* line 184, txqueue_size, NET_STATISTICS_MASK), __slots__ omits most of    *)
(* the attributes __init__ assigns, and ThreeGState() / ThreeGUsage() are   *)
(* called without their arguments.  Each of these fails on every call,      *)
(* whatever the state, so the model reads such an identifier as the         *)
(* attribute the surrounding lines evidently mean and a call without        *)
(* arguments as building the empty object (a ThreeGState with no            *)
(* calibration, a zero ThreeGUsage).  What depends on the state is kept as  *)
(* the code has it: the inverted sense of is_stale, the 10000 ceiling, the  *)
(* transition block skipped when the rounded clock did not advance, the     *)
(* dwell counter interface_off leaves alone, the tx_pkts / rx_pkts          *)
(* attributes that exist only after a first update, the arithmetic on a     *)
(* None calibration value, the early return on a failed counter read.       *)
(***************************************************************************)
EXTENDS Integers, Sequences, FiniteSets, TLC

VARIABLES
    world,       \* what the world around the monitor can do (fixed)
    now,         \* round(time.time())
    sys_tx,      \* the interface's tx_bytes counter in sysfs
    sys_rx,      \* the interface's rx_bytes counter in sysfs
    uid_tx,      \* each owner's tcp_snd counter
    uid_rx,      \* each owner's tcp_rcv counter
    provider,    \* ThreeG._provider
    state,       \* ThreeG._state, the device-level ThreeGState
    uid_states,  \* ThreeG._uid_states
    call,        \* the last step: a call with its inputs, or the world
    result,      \* the snapshot the last call returned
    silent,      \* history: device-level samples without traffic in a row
    q_state,     \* the ThreeGState a staleness query is put to
    q_now,       \* the clock of the query
    q_stale,     \* the answer of is_stale
    oled,        \* the screen monitor, its collaborators and its iteration
    cpu,         \* a call of get_cpu_power: tables, query and answer
    dwell,       \* one update under a configured iteration interval
    scenario,    \* a run of updates, one per iteration
    fb           \* the framebuffer samples of the screen monitor

vars == <<world, now, sys_tx, sys_rx, uid_tx, uid_rx,
          provider, state, uid_states, call, result, silent,
          q_state, q_now, q_stale, oled, cpu, dwell, scenario, fb>>

\* the variables of the radio monitor and of the staleness query
radio_vars == <<world, now, sys_tx, sys_rx, uid_tx, uid_rx,
                provider, state, uid_states, call, result, silent,
                q_state, q_now, q_stale>>

(***************************************************************************)
(* Bounds of the model.                                                    *)
(***************************************************************************)
\* the rounded clock runs from 0 to MaxTime
MaxTime == 2
\* and from 0 to MaxDeviceTime where no owner is listed
MaxDeviceTime == 5
\* the interface sends and receives at most MaxBytes bytes in all
MaxBytes == 1
\* and at most MaxDeviceBytes where no owner is listed
MaxDeviceBytes == 2
\* an owner sends and receives at most MaxUidBytes bytes in all
MaxUidBytes == 1
\* the calibration of the device: get_3g_dchfach_time and
\* get_3g_fachidle_time of the provider, in seconds
DchFachTime == 2
FachIdleTime == 2
\* the owner list of one iteration has at most MaxUids entries
MaxUids == 2
\* the history of silent samples is counted up to MaxSilent
MaxSilent == 3
\* the clock values of the staleness queries run from 0 to MaxQueryTime
MaxQueryTime == 23

(***************************************************************************)
(* Program constants.                                                      *)
(***************************************************************************)
POWER_STATE_IDLE == 0
POWER_STATE_FACH == 1
POWER_STATE_HIGH == 2
\* line 209-215 write ThreeG.POWER_STATE_DCH: the third state of lines 21-23
POWER_STATE_DCH == POWER_STATE_HIGH
PowerStates == {POWER_STATE_IDLE, POWER_STATE_FACH, POWER_STATE_DCH}

\* Python's None in a numeric attribute (_update_time, the calibration
\* times): every number the model stores there is >= 0
None == -1
\* a counter read that failed (lines 84, 112)
READ_FAILED == -1
\* the ceiling of is_stale, in the unit of the clock (line 235)
STALE_CEILING == 10000
\* PowerEstimator.ITERATION_INTERVAL, in milliseconds: the design default
ITERATION_INTERVAL == 1000

PROVIDER_ATT == "AT&T"
\* TelephonyAccess.get_operator_name()
GetOperatorName == PROVIDER_ATT
\* self._provider = None (line 71)
NoProvider == "None"

\* the answers of the telephony collaborator
NETWORK_TYPE_UMTS == "UMTS"
NETWORK_TYPE_HSDPA == "HSDPA"
NETWORK_TYPE_EDGE == "EDGE"
NetworkTypes == {NETWORK_TYPE_UMTS, NETWORK_TYPE_HSDPA, NETWORK_TYPE_EDGE}
DATA_CONNECTED == "CONNECTED"
DATA_DISCONNECTED == "DISCONNECTED"
DataStates == {DATA_CONNECTED, DATA_DISCONNECTED}

\* the owners the enumeration can report, and its end-of-list sentinel
Uids == {10001}
AID_ALL == -1

Min(a, b) == IF a < b THEN a ELSE b

\* the empty dictionary
EmptyMap == [u \in {} |-> 0]

(***************************************************************************)
(* ThreeGState                                                             *)
(***************************************************************************)
\* ThreeGState.__init__: pkts says whether the attributes tx_pkts and
\* rx_pkts exist (update sets them, __init__ does not); the packet counts
\* themselves feed delta_pkts only and are not carried
NewThreeGState(dch_fach_time, fach_idle_time) ==
    [tx_bytes |-> 0, rx_bytes |-> 0,
     delta_tx_bytes |-> 0, delta_rx_bytes |-> 0,
     pwr_state |-> POWER_STATE_IDLE,
     pwr_state_time |-> 0,
     inactive_time |-> 0,
     update_time |-> None,
     dch_fach_time |-> dch_fach_time,
     fach_idle_time |-> fach_idle_time,
     pkts |-> FALSE]

\* interface_off without its line 170: the power state is left as it was
InterfaceOffKeepsPowerState(s, t) ==
    [s EXCEPT !.update_time = t]

\* ThreeGState.interface_off
InterfaceOff(s, t) ==
    [s EXCEPT !.update_time = t, !.pwr_state = POWER_STATE_IDLE]

\* ThreeGState.is_initialized
IsInitialized(s) == s.update_time # None

\* lines 190-195 of update
TimeMult(interval) ==
    IF interval % 1000 # 0 THEN 1 ELSE 1000 \div interval

\* the demotion thresholds of lines 203 and 213, in iterations
Threshold(calibration_time, time_mult) == calibration_time * time_mult

\* lines 197-217 of update: the transition on the inactive flag, from a
\* state s whose deltas and inactive time are already written.  A None
\* calibration time raises where it is multiplied, after the dwell counter
\* was incremented.
Transition(s, inactive, time_mult) ==
    IF s.pwr_state = POWER_STATE_IDLE /\ ~inactive
    THEN [st |-> [s EXCEPT !.pwr_state = POWER_STATE_FACH], raised |-> FALSE]
    ELSE IF s.pwr_state = POWER_STATE_FACH
    THEN IF inactive
         THEN LET s1 == [s EXCEPT !.pwr_state_time = @ + 1]
              IN IF s.fach_idle_time = None
                 THEN [st |-> s1, raised |-> TRUE]
                 ELSE IF s1.pwr_state_time
                            >= Threshold(s.fach_idle_time, time_mult)
                 THEN [st |-> [s1 EXCEPT !.pwr_state_time = 0,
                                         !.pwr_state = POWER_STATE_IDLE],
                       raised |-> FALSE]
                 ELSE [st |-> s1, raised |-> FALSE]
         ELSE LET s1 == [s EXCEPT !.pwr_state_time = 0]
              IN IF s.delta_tx_bytes > 0 \/ s.delta_rx_bytes > 0
                 THEN [st |-> [s1 EXCEPT !.pwr_state = POWER_STATE_DCH],
                       raised |-> FALSE]
                 ELSE [st |-> s1, raised |-> FALSE]
    ELSE IF s.pwr_state = POWER_STATE_DCH
    THEN IF inactive
         THEN LET s1 == [s EXCEPT !.pwr_state_time = @ + 1]
              IN IF s.dch_fach_time = None
                 THEN [st |-> s1, raised |-> TRUE]
                 ELSE IF s1.pwr_state_time
                            >= Threshold(s.dch_fach_time, time_mult)
                 THEN [st |-> [s1 EXCEPT !.pwr_state_time = 0,
                                         !.pwr_state = POWER_STATE_FACH],
                       raised |-> FALSE]
                 ELSE [st |-> s1, raised |-> FALSE]
         ELSE [st |-> [s EXCEPT !.pwr_state_time = 0], raised |-> FALSE]
    ELSE [st |-> s, raised |-> FALSE]

\* ThreeGState.update at clock t with the byte counters tx, rx, under the
\* configured PowerEstimator.ITERATION_INTERVAL.  The result is the object
\* after the call and whether the call raised: line 180 reads tx_pkts and
\* rx_pkts, which do not exist before a first completed update.
UpdateAt(s, t, tx, rx, interval) ==
    IF s.update_time # None /\ t > s.update_time
    THEN IF ~s.pkts
         THEN [st |-> s, raised |-> TRUE]
         ELSE LET dtx == tx - s.tx_bytes
                  drx == rx - s.rx_bytes
                  inactive == dtx = 0 /\ drx = 0
                  s1 == [s EXCEPT
                           !.delta_tx_bytes = dtx,
                           !.delta_rx_bytes = drx,
                           !.inactive_time =
                               IF inactive THEN @ + (t - s.update_time) ELSE 0]
                  r == Transition(s1, inactive, TimeMult(interval))
              IN IF r.raised
                 THEN r
                 ELSE [st |-> [r.st EXCEPT !.update_time = t, !.pkts = TRUE,
                                           !.tx_bytes = tx, !.rx_bytes = rx],
                       raised |-> FALSE]
    ELSE [st |-> [s EXCEPT !.update_time = t, !.pkts = TRUE,
                           !.tx_bytes = tx, !.rx_bytes = rx],
          raised |-> FALSE]

\* update whose promotion from IDLE on traffic goes on to DCH at once
UpdateIdleToDch(s, t, tx, rx) ==
    LET r == UpdateAt(s, t, tx, rx, ITERATION_INTERVAL)
    IN IF s.pwr_state = POWER_STATE_IDLE
          /\ r.st.pwr_state = POWER_STATE_FACH
       THEN [r EXCEPT !.st.pwr_state = POWER_STATE_DCH]
       ELSE r

\* ThreeGState.update at the design default of the interval
Update(s, t, tx, rx) == UpdateAt(s, t, tx, rx, ITERATION_INTERVAL)

\* ThreeGState.is_stale at clock t, on an object that was updated before
IsStale(s, t) ==
    IF s.pwr_state # POWER_STATE_IDLE
    THEN TRUE
    ELSE (t - s.update_time) > Min(STALE_CEILING, s.inactive_time)

\* The answers is_stale can give at clock t.  On an object never updated
\* line 235 subtracts None from the clock, which raises in CPython; lines
\* 114 and 123-124 of the caller handle such an object after the test, that
\* is, are written for a test that lets it through.  Both are kept.
IsStaleOutcomes(s, t) ==
    IF s.pwr_state # POWER_STATE_IDLE
    THEN {"stale"}
    ELSE IF s.update_time = None
    THEN {"raise", "fresh"}
    ELSE IF IsStale(s, t) THEN {"stale"} ELSE {"fresh"}

(***************************************************************************)
(* Usage records and the iteration snapshot                                *)
(***************************************************************************)
\* ThreeGUsage.__init__ (the packet count is not carried)
ThreeGUsage(tx_bytes, rx_bytes, pwr_state, prov) ==
    [tx_bytes |-> tx_bytes, rx_bytes |-> rx_bytes,
     pwr_state |-> pwr_state, provider |-> prov]

\* ThreeGUsage() of line 75: the zero record
EmptyUsage == ThreeGUsage(0, 0, POWER_STATE_IDLE, NoProvider)

\* IterationData(): no system-wide record, no per-owner record.  sys holds
\* the system-wide record when there is one; uid holds the per-owner
\* records, each with its owner; read is the set of owners whose counters
\* the iteration read (lines 109-110); raised says that the call ended in
\* an exception instead of returning the snapshot; writes is history, the
\* number of calls of set_uid_usage.
IterationData ==
    [sys |-> {}, uid |-> <<>>, read |-> {}, raised |-> FALSE, writes |-> 0]

\* the owners a snapshot holds a record for
Owners(res) == {res.uid[i].owner : i \in DOMAIN res.uid}

\* the records a snapshot holds for an owner
UidUsages(res, uid) ==
    {res.uid[i].usage : i \in {j \in DOMAIN res.uid : res.uid[j].owner = uid}}

\* IterationData.set_sys_usage
SetSysUsage(res, usage) == [res EXCEPT !.sys = {usage}]

\* set_uid_usage that adds the record and keeps the owner's earlier one
SetUidUsageAppend(res, uid, usage) ==
    [res EXCEPT !.uid = Append(@, [owner |-> uid, usage |-> usage]),
                !.writes = @ + 1]

\* IterationData.set_uid_usage: the snapshot maps the owner to the record,
\* in the place of a record it held for that owner
SetUidUsage(res, uid, usage) ==
    [res EXCEPT !.uid =
        Append(SelectSeq(@, LAMBDA e : e.owner # uid),
               [owner |-> uid, usage |-> usage]),
                !.writes = @ + 1]

\* self._uid_states.setdefault(uid, ThreeGState()) of line 101
SetDefault(states, uid) ==
    IF uid \in DOMAIN states
    THEN states
    ELSE [u \in (DOMAIN states) \cup {uid} |->
            IF u = uid THEN NewThreeGState(None, None) ELSE states[u]]

Put(states, uid, s) == [states EXCEPT ![uid] = s]

\* innermost test of the loop, lines 117-118
HasUsage(s) ==
    (s.tx_bytes + s.rx_bytes # 0) \/ (s.pwr_state # POWER_STATE_IDLE)

\* Lines 101-124 for one owner.  acc = [states, res]; tx and rx are what the
\* reads of lines 109-110 return; ans is the answer is_stale gives where the
\* code leaves it open.
OwnerStep(acc, uid, t, prov, tx, rx, ans) ==
    LET states == SetDefault(acc.states, uid)
        s == states[uid]
        outs == IsStaleOutcomes(s, t)
        out == IF ans \in outs THEN ans ELSE CHOOSE o \in outs : TRUE
        res1 == [acc.res EXCEPT !.read = @ \cup {uid}]
    IN IF out = "raise"
       THEN [states |-> states, res |-> [acc.res EXCEPT !.raised = TRUE]]
       ELSE IF out = "stale"
       THEN [states |-> states, res |-> acc.res]
       ELSE IF rx = READ_FAILED \/ tx = READ_FAILED
       THEN [states |-> states, res |-> res1]
       ELSE LET r == Update(s, t, tx, rx)
            IN IF r.raised
               THEN [states |-> Put(states, uid, r.st),
                     res |-> [res1 EXCEPT !.raised = TRUE]]
               ELSE IF IsInitialized(s) /\ HasUsage(r.st)
               THEN [states |-> Put(states, uid, r.st),
                     res |-> SetUidUsage(res1, uid,
                                ThreeGUsage(r.st.tx_bytes, r.st.rx_bytes,
                                            r.st.pwr_state, prov))]
               ELSE [states |-> Put(states, uid, r.st), res |-> res1]

\* The loop of lines 97-124 from position i of the list: it ends at the end
\* of the list, at a negative entry (line 98) or where a step raised.
RECURSIVE OwnerLoop(_, _, _, _, _, _, _, _, _)
OwnerLoop(acc, uids, i, t, prov, txs, rxs, fail, ans) ==
    IF i > Len(uids) \/ acc.res.raised
    THEN acc
    ELSE IF uids[i] < 0
    THEN acc
    ELSE LET uid == uids[i]
             tx == IF uid \in fail THEN READ_FAILED ELSE txs[uid]
             rx == IF uid \in fail THEN READ_FAILED ELSE rxs[uid]
         IN OwnerLoop(OwnerStep(acc, uid, t, prov, tx, rx, ans),
                      uids, i + 1, t, prov, txs, rxs, fail, ans)

\* lines 60-62
CoerceNetType(net_type) ==
    IF net_type # NETWORK_TYPE_UMTS /\ net_type # NETWORK_TYPE_HSDPA
    THEN NETWORK_TYPE_UMTS
    ELSE net_type

\* the test of lines 65-67, on the coerced network type
InterfaceIsOff(net_state, net_type) ==
    (net_state # DATA_CONNECTED)
    \/ (net_type # NETWORK_TYPE_UMTS /\ net_type # NETWORK_TYPE_HSDPA)

(***************************************************************************)
(* The monitor: ThreeG.__init__ and ThreeG.calc_iteration, and the world   *)
(* around it (the clock and the kernel's byte counters).                   *)
(***************************************************************************)
\* the owner lists SystemInfo.get_uids can hand to one iteration
UidLists(uids) == UNION {[1..n -> uids \cup {AID_ALL}] : n \in 0..MaxUids}

\* what the last step was: a call of calc_iteration with the collaborators'
\* answers (tx, rx: the interface counters as read, READ_FAILED for a
\* failed read), or a step of the world
Call(net_state, net_type, tx, rx, before) ==
    [op |-> "calc_iteration", net_state |-> net_state, net_type |-> net_type,
     tx |-> tx, rx |-> rx, before |-> before]

\* history of a call that took the interface-off path: the power state and
\* the tracked owners it found
Before(s, states) == [pwr_state |-> s.pwr_state, tracked |-> DOMAIN states]
NoBefore == [pwr_state |-> POWER_STATE_IDLE, tracked |-> {}]

NoCall == [op |-> "world", net_state |-> DATA_DISCONNECTED,
           net_type |-> NETWORK_TYPE_UMTS, tx |-> 0, rx |-> 0,
           before |-> NoBefore]

QueryIdle ==
    /\ q_state = NewThreeGState(None, None)
    /\ q_now = 0
    /\ q_stale = "none"

\* no screen monitor, no calibration lookup, no dwell query, no scenario,
\* no framebuffer sampling
OledIdle == oled = [pc |-> "none"]
CpuIdle == cpu = [pc |-> "none"]
DwellIdle == dwell = [pc |-> "none"]
ScenarioIdle == scenario = [pc |-> "none"]
FbIdle == fb = [pc |-> "none"]

\* ThreeG.__init__ (lines 34-49), before the first iteration
MonitorInit ==
    /\ now = 0
    /\ sys_tx = 0
    /\ sys_rx = 0
    /\ uid_tx = [u \in Uids |-> 0]
    /\ uid_rx = [u \in Uids |-> 0]
    /\ provider = GetOperatorName
    /\ state = NewThreeGState(DchFachTime, FachIdleTime)
    /\ uid_states = EmptyMap
    /\ call = NoCall
    /\ result = IterationData
    /\ silent = 0
    /\ FbIdle
    /\ QueryIdle
    /\ OledIdle /\ CpuIdle /\ DwellIdle /\ ScenarioIdle

\* the monitor among owners, for MaxTime seconds
Init ==
    /\ world = [max_time |-> MaxTime, max_bytes |-> MaxBytes, uids |-> Uids]
    /\ MonitorInit

\* the monitor on a device that lists no owner, for MaxDeviceTime seconds
InitDevice ==
    /\ world = [max_time |-> MaxDeviceTime, max_bytes |-> MaxDeviceBytes,
                uids |-> {}]
    /\ MonitorInit

\* time.time() moves on by one rounded second
Tick ==
    /\ now < world.max_time
    /\ now' = now + 1
    /\ call' = NoCall
    /\ result' = IterationData
    /\ UNCHANGED <<world, sys_tx, sys_rx, uid_tx, uid_rx, provider, state,
                   uid_states, silent, q_state, q_now, q_stale>>
    /\ UNCHANGED <<oled, cpu, dwell, scenario, fb>>

\* the interface sends or receives
SysTraffic ==
    /\ sys_tx + sys_rx < world.max_bytes
    /\ \/ sys_tx' = sys_tx + 1 /\ sys_rx' = sys_rx
       \/ sys_rx' = sys_rx + 1 /\ sys_tx' = sys_tx
    /\ call' = NoCall
    /\ result' = IterationData
    /\ UNCHANGED <<world, now, uid_tx, uid_rx, provider, state,
                   uid_states, silent, q_state, q_now, q_stale>>
    /\ UNCHANGED <<oled, cpu, dwell, scenario, fb>>

\* an owner sends or receives
UidTraffic ==
    /\ \E u \in world.uids :
          /\ uid_tx[u] + uid_rx[u] < MaxUidBytes
          /\ \/ uid_tx' = [uid_tx EXCEPT ![u] = @ + 1] /\ uid_rx' = uid_rx
             \/ uid_rx' = [uid_rx EXCEPT ![u] = @ + 1] /\ uid_tx' = uid_tx
    /\ call' = NoCall
    /\ result' = IterationData
    /\ UNCHANGED <<world, now, sys_tx, sys_rx, provider, state,
                   uid_states, silent, q_state, q_now, q_stale>>
    /\ UNCHANGED <<oled, cpu, dwell, scenario, fb>>

\* The history the dwell claims speak of: the number of device-level
\* samples in a row, up to and including this one, that found both byte
\* counters where the sample before had left them.  A sample with traffic,
\* the first sample and an interface-off start the count again, and so
\* does a sample that leaves the power state changed.  The count stops at
\* MaxSilent.
Silent(s, tx, rx, n) ==
    IF IsInitialized(s) /\ tx = s.tx_bytes /\ rx = s.rx_bytes
       /\ Update(s, now, tx, rx).st.pwr_state = s.pwr_state
    THEN Min(n + 1, MaxSilent)
    ELSE 0

\* calc_iteration, lines 64-77: the interface is off
IterationOff(net_state, net_type) ==
    /\ InterfaceIsOff(net_state, CoerceNetType(net_type))
    /\ provider' = NoProvider
    /\ state' = InterfaceOff(state, now)
    /\ uid_states' = EmptyMap
    /\ result' = SetSysUsage(IterationData, EmptyUsage)
    /\ silent' = 0
    /\ call' = Call(net_state, net_type, sys_tx, sys_rx,
                    Before(state, uid_states))

\* calc_iteration, lines 79-86: a byte counter of the interface was not read
IterationReadFailed(net_state, net_type, tx, rx) ==
    /\ ~InterfaceIsOff(net_state, CoerceNetType(net_type))
    /\ (tx = READ_FAILED) \/ (rx = READ_FAILED)
    /\ result' = IterationData
    /\ call' = Call(net_state, net_type, tx, rx, NoBefore)
    /\ UNCHANGED <<provider, state, uid_states, silent>>

\* calc_iteration, lines 87-126: the device-level update, the system-wide
\* record and the loop over the owners
IterationOn(net_state, net_type, uids, fail, ans) ==
    /\ ~InterfaceIsOff(net_state, CoerceNetType(net_type))
    /\ LET r == Update(state, now, sys_tx, sys_rx)
           res0 == IF IsInitialized(r.st)
                   THEN SetSysUsage(IterationData,
                            ThreeGUsage(r.st.tx_bytes, r.st.rx_bytes,
                                        r.st.pwr_state, provider))
                   ELSE IterationData
           acc == OwnerLoop([states |-> uid_states, res |-> res0],
                            uids, 1, now, provider, uid_tx, uid_rx, fail, ans)
       IN IF r.raised
          THEN /\ state' = r.st
               /\ uid_states' = uid_states
               /\ result' = [IterationData EXCEPT !.raised = TRUE]
          ELSE /\ state' = r.st
               /\ uid_states' = acc.states
               /\ result' = IF acc.res.raised
                            THEN [IterationData EXCEPT !.raised = TRUE,
                                                       !.read = acc.res.read]
                            ELSE acc.res
    /\ provider' = provider
    /\ silent' = Silent(state, sys_tx, sys_rx, silent)
    /\ call' = Call(net_state, net_type, sys_tx, sys_rx, NoBefore)

\* the owners a list names before its end
Listed(uids) ==
    {uids[i] : i \in {j \in 1..Len(uids) :
                        \A k \in 1..j : uids[k] >= 0}}

\* what is_stale can be taken to answer where the code leaves it open: it
\* is open only when the list names an owner not tracked yet
StaleAnswers(uids, states) ==
    IF Listed(uids) \subseteq DOMAIN states
    THEN {"fresh"}
    ELSE {"raise", "fresh"}

\* one call of ThreeG.calc_iteration
CalcIteration ==
    /\ \E net_state \in DataStates, net_type \in NetworkTypes :
          \/ IterationOff(net_state, net_type)
          \/ \E tx \in {sys_tx, READ_FAILED}, rx \in {sys_rx, READ_FAILED} :
                IterationReadFailed(net_state, net_type, tx, rx)
          \/ \E uids \in UidLists(world.uids) :
                \E fail \in SUBSET Listed(uids),
                   ans \in StaleAnswers(uids, uid_states) :
                   IterationOn(net_state, net_type, uids, fail, ans)
    /\ UNCHANGED <<world, now, sys_tx, sys_rx, uid_tx, uid_rx,
                   q_state, q_now, q_stale>>
    /\ UNCHANGED <<oled, cpu, dwell, scenario, fb>>

Next == Tick \/ SysTraffic \/ UidTraffic \/ CalcIteration

Spec == Init /\ [][Next]_vars

NextDevice == Tick \/ SysTraffic \/ CalcIteration

SpecDevice == InitDevice /\ [][NextDevice]_vars

(***************************************************************************)
(* The monitor where the interface stays connected and every owner stays   *)
(* in the list of active owners: the estimator calls calc_iteration again  *)
(* and again, the clock and the counters move in between.                  *)
(***************************************************************************)
\* the clock of the polling runs runs from 0 to MaxPollTime
MaxPollTime == 3

InitPolling ==
    /\ world = [max_time |-> MaxPollTime, max_bytes |-> MaxBytes,
                uids |-> Uids]
    /\ MonitorInit

\* the owner lists that name every owner before their end
FullLists(uids) == {l \in UidLists(uids) : uids \subseteq Listed(l)}

\* one call of calc_iteration that finds the data connection connected and
\* a list that names every owner
PollIteration ==
    /\ \E net_type \in NetworkTypes, uids \in FullLists(world.uids) :
          \E fail \in SUBSET Listed(uids),
             ans \in StaleAnswers(uids, uid_states) :
             IterationOn(DATA_CONNECTED, net_type, uids, fail, ans)
    /\ UNCHANGED <<world, now, sys_tx, sys_rx, uid_tx, uid_rx,
                   q_state, q_now, q_stale>>
    /\ UNCHANGED <<oled, cpu, dwell, scenario, fb>>

NextPolling == Tick \/ SysTraffic \/ UidTraffic \/ PollIteration

\* the estimator's loop does not stop calling, and time does not stop
SpecPolling ==
    /\ InitPolling
    /\ [][NextPolling]_vars
    /\ WF_vars(PollIteration)
    /\ WF_vars(Tick)

(***************************************************************************)
(* ThreeGState.is_stale as a function of the object and the clock: the     *)
(* objects are drawn from the states update can leave an object in, the    *)
(* clock from the seconds at or after the object's last update.            *)
(***************************************************************************)
QueryStates ==
    {[NewThreeGState(None, None) EXCEPT
         !.pwr_state = p, !.update_time = u, !.inactive_time = i,
         !.pkts = TRUE] :
       p \in PowerStates, u \in 0..MaxQueryTime, i \in 0..MaxQueryTime}

InitStale ==
    /\ world = [max_time |-> 0, max_bytes |-> 0, uids |-> {}]
    /\ now = 0
    /\ sys_tx = 0
    /\ sys_rx = 0
    /\ uid_tx = [u \in Uids |-> 0]
    /\ uid_rx = [u \in Uids |-> 0]
    /\ provider = GetOperatorName
    /\ state = NewThreeGState(DchFachTime, FachIdleTime)
    /\ uid_states = EmptyMap
    /\ call = NoCall
    /\ result = IterationData
    /\ silent = 0
    /\ FbIdle
    /\ q_state \in QueryStates
    /\ q_state.inactive_time <= q_state.update_time
    /\ q_now \in q_state.update_time..MaxQueryTime
    /\ q_stale = "none"
    /\ OledIdle /\ CpuIdle /\ DwellIdle /\ ScenarioIdle

\* one call of is_stale
QueryStale ==
    /\ q_stale = "none"
    /\ q_stale' = IF IsStale(q_state, q_now) THEN "stale" ELSE "fresh"
    /\ UNCHANGED <<world, now, sys_tx, sys_rx, uid_tx, uid_rx, provider,
                   state, uid_states, call, result, silent, q_state, q_now>>
    /\ UNCHANGED <<oled, cpu, dwell, scenario, fb>>

NextStale == QueryStale

SpecStale == InitStale /\ [][NextStale]_vars

(***************************************************************************)
(* The screen monitor: OLED.calc_iteration and OLEDUsage.  The Screen base *)
(* class (the screen_on flag, its lock and its writer), the brightness and *)
(* foreground collaborators are not part of the sources; they follow the   *)
(* interface the monitor uses.  Powers are exact fractions num / den where *)
(* the code computes in floating point; False and True are the numbers 0   *)
(* and 1, as in Python.                                                    *)
(***************************************************************************)
\* the screen is Width x Height pixels
Width == 2
Height == 2
\* OLED.NSAMPLES, the number of sampled pixels (500 in the source)
NSAMPLES == 2
\* OLED_MODULATION_PWR runs from 0 to MaxModulationPwr
MaxModulationPwr == 4
\* each of the three OLED_CHANNEL_PWRS
ChannelPwr == 1

\* 65025 = 255^2 (line 28) and 585225 = 65025 * 3^2 (line 32)
CHANNEL_SCALE == 65025
MODULATION_SCALE == 585225

Num(n) == [num |-> n, den |-> 1]
Frac(n, d) == [num |-> n, den |-> d]
False == Num(0)
True == Num(1)
Truthy(v) == v.num # 0

\* what get_display_brightness can answer: values in [0,255] and, for
\* "unavailable", values outside
Brightnesses == {-1, 0, 128, 255, 256}

\* packed 32-bit pixels as struct.unpack('i', ...) returns them: black,
\* white (0xFFFFFF00), red (0xFF000000) and blue (0x0000FF00)
Pixels == {0, -256, -16777216, 65280}

\* the owners that can be in the foreground
ForegroundUids == {10001, 10002}

\* lines 76-78: the three channels of a packed pixel
Blue(px) == (px \div 256) % 256
Green(px) == (px \div 65536) % 256
Red(px) == (px \div 16777216) % 256

\* lines 86-91 for one pixel, in units of 1 / 585225: the channel
\* coefficients are OLED_CHANNEL_PWRS / 65025 and the modulation
\* coefficient is OLED_MODULATION_PWR / 585225
PixelPower(px, channel_pwrs, modulation_pwr) ==
    LET sum_colors == Red(px) + Green(px) + Blue(px)
        per_channel == MODULATION_SCALE \div CHANNEL_SCALE
    IN per_channel * (channel_pwrs[1] * (Red(px) * Red(px))
                      + channel_pwrs[2] * (Green(px) * Green(px))
                      + channel_pwrs[3] * (Blue(px) * Blue(px)))
       - modulation_pwr * (sum_colors * sum_colors)

\* the loop of lines 72-91 over the sampled pixels, in units of 1 / 585225
RECURSIVE SumPixelPower(_, _, _, _)
SumPixelPower(pixels, i, channel_pwrs, modulation_pwr) ==
    IF i > Len(pixels)
    THEN 0
    ELSE PixelPower(pixels[i], channel_pwrs, modulation_pwr)
         + SumPixelPower(pixels, i + 1, channel_pwrs, modulation_pwr)

\* lines 66-97: px_pwr for the flag as read, the framebuffer file, the
\* sampled pixels and whether the read raised IOError
PxPwr(screen, fb_file, pixels, io_error, cfg) ==
    IF screen /\ fb_file
    THEN LET acc == IF io_error
                    THEN 0
                    ELSE SumPixelPower(pixels, 1, cfg.channel_pwrs,
                                       cfg.modulation_pwr)
         IN IF acc > 0
            THEN Frac(acc * (cfg.width * cfg.height),
                      MODULATION_SCALE * NSAMPLES)
            ELSE Frac(acc, MODULATION_SCALE)
    ELSE Num(0)

\* OLEDUsage.__init__(screen_on, brightness, pix_pwr)
OLEDUsage(screen_on, brightness, pix_pwr) ==
    [screen_on |-> screen_on, brightness |-> brightness, pix_pwr |-> pix_pwr]

\* OLEDUsage(): the defaults of line 115
OLEDUsageDefault == OLEDUsage(False, Num(0), Num(0))

\* OLEDUsage(brightness, px_pwr) of line 100: two positional arguments, the
\* third parameter keeps its default
OLEDUsageOn(brightness, px_pwr) == OLEDUsage(Num(brightness), px_pwr, Num(0))

\* the test of line 59, as written
BrightnessUnavailable(brightness) == 0 <= brightness /\ brightness <= 255

\* line 99 testing self.screen_on again instead of the local copy
ScreenAtEmitReadsFlag(o) == o.screen_on

\* the flag the attribution of line 99 tests: the local copy of line 64
ScreenAtEmit(o) == o.screen

\* OLED.__init__ and the Screen base: the calibration, the framebuffer
\* file chosen by _setup_fb, the shared flag and its lock.  seen_on and
\* seen_off are history: the values the flag had while the iteration ran.
NewOled(modulation_pwr, fb_file, screen_on) ==
    [pc |-> "idle",
     cfg |-> [width |-> Width, height |-> Height,
              channel_pwrs |-> <<ChannelPwr, ChannelPwr, ChannelPwr>>,
              modulation_pwr |-> modulation_pwr],
     fb_file |-> fb_file,
     screen_on |-> screen_on,
     lock |-> "free",
     brightness |-> 0,
     screen |-> FALSE,
     reads |-> 0,
     pixels |-> <<>>,
     io_error |-> FALSE,
     px_pwr |-> Num(0),
     fg |-> 0,
     seen_on |-> FALSE,
     seen_off |-> FALSE,
     result |-> IterationData]

InitOled ==
    /\ world = [max_time |-> 0, max_bytes |-> 0, uids |-> {}]
    /\ now = 0
    /\ sys_tx = 0
    /\ sys_rx = 0
    /\ uid_tx = [u \in Uids |-> 0]
    /\ uid_rx = [u \in Uids |-> 0]
    /\ provider = GetOperatorName
    /\ state = NewThreeGState(DchFachTime, FachIdleTime)
    /\ uid_states = EmptyMap
    /\ call = NoCall
    /\ result = IterationData
    /\ silent = 0
    /\ FbIdle
    /\ QueryIdle
    /\ CpuIdle /\ DwellIdle /\ ScenarioIdle
    /\ \E m \in 0..MaxModulationPwr, f \in BOOLEAN, on \in BOOLEAN :
          oled = NewOled(m, f, on)

\* lines 55-61: a fresh snapshot, the brightness and its test
OledBrightness ==
    /\ oled.pc \in {"idle", "done"}
    /\ \E b \in Brightnesses :
          oled' = [oled EXCEPT
                     !.brightness = b,
                     !.result = IterationData,
                     !.screen = FALSE, !.reads = 0, !.pixels = <<>>,
                     !.io_error = FALSE, !.px_pwr = Num(0), !.fg = 0,
                     !.seen_on = oled.screen_on,
                     !.seen_off = ~oled.screen_on,
                     !.pc = IF BrightnessUnavailable(b)
                            THEN "done" ELSE "lock"]
    /\ UNCHANGED <<radio_vars, cpu, dwell, scenario, fb>>

\* line 63: with self._screenlock
OledAcquire ==
    /\ oled.pc = "lock"
    /\ oled.lock = "free"
    /\ oled' = [oled EXCEPT !.lock = "monitor", !.pc = "read"]
    /\ UNCHANGED <<radio_vars, cpu, dwell, scenario, fb>>

\* line 64 and the end of the with block
OledReadFlag ==
    /\ oled.pc = "read"
    /\ oled' = [oled EXCEPT !.screen = oled.screen_on, !.reads = @ + 1,
                            !.lock = "free", !.pc = "sample"]
    /\ UNCHANGED <<radio_vars, cpu, dwell, scenario, fb>>

\* lines 66-97: the pixel power of the sampled pixels
OledSample ==
    /\ oled.pc = "sample"
    /\ \E pixels \in [1..NSAMPLES -> Pixels], io_error \in BOOLEAN :
          /\ (~(oled.screen /\ oled.fb_file))
                => (pixels = [i \in 1..NSAMPLES |-> 0] /\ ~io_error)
          /\ oled' = [oled EXCEPT
                        !.pixels = pixels, !.io_error = io_error,
                        !.px_pwr = PxPwr(oled.screen, oled.fb_file, pixels,
                                         io_error, oled.cfg),
                        !.pc = "emit"]
    /\ UNCHANGED <<radio_vars, cpu, dwell, scenario, fb>>

\* lines 99-108: the records and the return
OledEmit ==
    /\ oled.pc = "emit"
    /\ \E fg \in ForegroundUids :
          LET usage == IF ScreenAtEmit(oled)
                       THEN OLEDUsageOn(oled.brightness, oled.px_pwr)
                       ELSE OLEDUsageDefault
              res == IF ScreenAtEmit(oled)
                     THEN SetUidUsage(oled.result, fg, usage)
                     ELSE oled.result
          IN oled' = [oled EXCEPT
                        !.fg = IF ScreenAtEmit(oled) THEN fg ELSE 0,
                        !.result = SetSysUsage(res, usage),
                        !.pc = "done"]
    /\ UNCHANGED <<radio_vars, cpu, dwell, scenario, fb>>

\* the display-state writer takes the lock ...
DisplayAcquire ==
    /\ oled.pc # "none"
    /\ oled.lock = "free"
    /\ oled' = [oled EXCEPT !.lock = "writer"]
    /\ UNCHANGED <<radio_vars, cpu, dwell, scenario, fb>>

\* ... sets the flag and releases the lock
DisplayWrite ==
    /\ oled.pc # "none"
    /\ oled.lock = "writer"
    /\ \E on \in BOOLEAN :
          LET running == oled.pc \notin {"idle", "done"}
          IN oled' = [oled EXCEPT
                        !.screen_on = on, !.lock = "free",
                        !.seen_on = @ \/ (running /\ on),
                        !.seen_off = @ \/ (running /\ ~on)]
    /\ UNCHANGED <<radio_vars, cpu, dwell, scenario, fb>>

NextOled ==
    \/ OledBrightness \/ OledAcquire \/ OledReadFlag \/ OledSample
    \/ OledEmit \/ DisplayAcquire \/ DisplayWrite

SpecOled == InitOled /\ [][NextOled]_vars

\* the last step of the screen monitor returned a snapshot
OledDone == oled.pc = "done"

(***************************************************************************)
(* The framebuffer samples of the screen monitor: OLED._setup_fb_samples,  *)
(* run once by OLED.__init__, and the loop of calc_iteration that seeks to *)
(* each sample.  The frame holds width * height pixels, numbered from 0.   *)
(***************************************************************************)
\* screens are 1..MaxWidth pixels wide and 1..MaxHeight pixels high
MaxWidth == 3
MaxHeight == 3
\* an object runs at most MaxIterations iterations
MaxIterations == 2

\* the screen sizes: the frame holds at least NSAMPLES pixels
ScreenSizes ==
    {sz \in [width : 1..MaxWidth, height : 1..MaxHeight] :
        sz.width * sz.height >= NSAMPLES}

\* line 48
Factor(width, height) == (width * height) \div NSAMPLES

\* random.randint(0, factor): an integer N with 0 <= N <= factor
Jitter(factor) == 0..factor

\* the value line 50 appends for index i under a jitter
FbSample(factor, i, jitter) == (factor * i) + jitter

\* OLED.__init__ up to line 26: no sample yet.  chosen is history, the
\* list as _setup_fb_samples left it; outside is history, the seeks of the
\* last iteration that went to a pixel at or past the end of the frame.
InitSamples ==
    /\ world = [max_time |-> 0, max_bytes |-> 0, uids |-> {}]
    /\ now = 0
    /\ sys_tx = 0
    /\ sys_rx = 0
    /\ uid_tx = [u \in Uids |-> 0]
    /\ uid_rx = [u \in Uids |-> 0]
    /\ provider = GetOperatorName
    /\ state = NewThreeGState(DchFachTime, FachIdleTime)
    /\ uid_states = EmptyMap
    /\ call = NoCall
    /\ result = IterationData
    /\ silent = 0
    /\ QueryIdle
    /\ OledIdle /\ CpuIdle /\ DwellIdle /\ ScenarioIdle
    /\ \E sz \in ScreenSizes :
          fb = [pc |-> "setup", width |-> sz.width, height |-> sz.height,
                fb_samples |-> <<>>, chosen |-> <<>>,
                iterations |-> 0, outside |-> 0]

\* one turn of the loop of lines 49-50; the loop ends after NSAMPLES turns
SetupFbSample ==
    /\ fb.pc = "setup"
    /\ LET factor == Factor(fb.width, fb.height)
           i == Len(fb.fb_samples)
       IN \E jitter \in Jitter(factor) :
             LET samples == Append(fb.fb_samples, FbSample(factor, i, jitter))
                 last == i + 1 = NSAMPLES
             IN fb' = [fb EXCEPT
                         !.fb_samples = samples,
                         !.chosen = IF last THEN samples ELSE @,
                         !.pc = IF last THEN "ready" ELSE "setup"]
    /\ UNCHANGED <<radio_vars, oled, cpu, dwell, scenario>>

\* lines 72-75 of calc_iteration: a seek to every sample, the list read
\* and not written
SampleIteration ==
    /\ fb.pc = "ready"
    /\ fb.iterations < MaxIterations
    /\ fb' = [fb EXCEPT
                !.iterations = @ + 1,
                !.outside = Cardinality(
                    {k \in DOMAIN fb.fb_samples :
                        fb.fb_samples[k] >= fb.width * fb.height})]
    /\ UNCHANGED <<radio_vars, oled, cpu, dwell, scenario>>

NextSamples == SetupFbSample \/ SampleIteration

SpecSamples == InitSamples /\ [][NextSamples]_vars

\* the object is constructed
SamplesReady == fb.pc = "ready"

(***************************************************************************)
(* The calibration lookup: Constants.get_cpu_power and _upper_bound of     *)
(* src/phones/base.py.  Lists are indexed from 0 as in the source: entry k *)
(* of a list is At(list, k).  The tables hold integers, and "/" on         *)
(* integers is the floor division of the Python the file is written for    *)
(* (base.py does not import division from __future__).                     *)
(***************************************************************************)
\* a table has at most MaxTable entries
MaxTable == 3
\* breakpoints run from 1 to MaxFreq, queries from 0 to MaxFreq + 1
MaxFreq == 4
\* ratios run from 0 to MaxRatio
MaxRatio == 3
\* usr_perc + sys_perc of the query runs from 0 to MaxPerc
MaxPerc == 1

Max(a, b) == IF a > b THEN a ELSE b

\* list[k], k counted from 0
At(list, k) == list[k + 1]

\* list[k] as Python indexes: a negative k counts from the end, an index
\* outside -len..len-1 raises IndexError
InRange(list, k) == -Len(list) <= k /\ k < Len(list)
PyAt(list, k) == IF k < 0 THEN At(list, Len(list) + k) ELSE At(list, k)

\* the loop of _upper_bound from lo, hi
RECURSIVE UpperBoundLoop(_, _, _, _)
UpperBoundLoop(value, list_, lo, hi) ==
    IF lo < hi
    THEN LET mid == lo + (hi - lo) \div 2
         IN IF At(list_, mid) <= value
            THEN UpperBoundLoop(value, list_, mid + 1, hi)
            ELSE UpperBoundLoop(value, list_, lo, mid)
    ELSE lo

\* Constants._upper_bound
UpperBound(value, list_) == UpperBoundLoop(value, list_, 0, Len(list_))

\* lines 66-69 of get_cpu_power: the query frequency after the two tests
ClampFreq(freq, freqs, ratios) ==
    LET f1 == IF freq < PyAt(ratios, 0) THEN PyAt(freqs, 0) ELSE freq
    IN IF freq > PyAt(ratios, -1) THEN PyAt(freqs, -1) ELSE f1

\* what a call leaves when it raises
Raised(i) == [ratio |-> 0, power |-> 0, raised |-> TRUE, i |-> i]

\* Constants.get_cpu_power for the tables CPU_FREQS and CPU_PWR_RATIOS and
\* the query cpu_data = (freq, usr_perc + sys_perc): the ratio, the power
\* returned, whether the call raised, and the index i of line 71 (-1 where
\* the call does not search)
GetCpuPower(freqs, ratios, freq, perc) ==
    IF Len(ratios) = 0
    THEN [ratio |-> 0, power |-> 0, raised |-> FALSE, i |-> -1]
    ELSE IF Len(ratios) = 1
    THEN [ratio |-> PyAt(ratios, 0),
          power |-> Max(0, PyAt(ratios, 0) * perc),
          raised |-> FALSE, i |-> -1]
    ELSE LET f == ClampFreq(freq, freqs, ratios)
             i == UpperBound(f, freqs)
         IN IF ~InRange(ratios, i) \/ ~InRange(freqs, i)
            THEN Raised(i)
            ELSE LET df == PyAt(freqs, i) - PyAt(freqs, i - 1)
                     dr == PyAt(ratios, i) - PyAt(ratios, i - 1)
                 IN IF df = 0
                    THEN Raised(i)
                    ELSE LET ratio == PyAt(ratios, i - 1)
                                      + (dr \div df) * (f - PyAt(freqs, i - 1))
                         IN [ratio |-> ratio,
                             power |-> Max(0, ratio * perc),
                             raised |-> FALSE, i |-> i]

\* strictly ascending lists of n breakpoints
RECURSIVE Ascending(_)
Ascending(n) ==
    IF n = 0
    THEN {<<>>}
    ELSE {Append(t, f) : t \in Ascending(n - 1), f \in 1..MaxFreq}

IsAscending(t) == \A k \in 1..(Len(t) - 1) : t[k] < t[k + 1]

\* the calibration tables of a device: parallel lists of equal length, the
\* breakpoints ascending
Tables ==
    UNION {{[freqs |-> f, ratios |-> r] :
              f \in {t \in Ascending(n) : IsAscending(t)},
              r \in [1..n -> 0..MaxRatio]} : n \in 0..MaxTable}

InitCpu ==
    /\ world = [max_time |-> 0, max_bytes |-> 0, uids |-> {}]
    /\ now = 0
    /\ sys_tx = 0
    /\ sys_rx = 0
    /\ uid_tx = [u \in Uids |-> 0]
    /\ uid_rx = [u \in Uids |-> 0]
    /\ provider = GetOperatorName
    /\ state = NewThreeGState(DchFachTime, FachIdleTime)
    /\ uid_states = EmptyMap
    /\ call = NoCall
    /\ result = IterationData
    /\ silent = 0
    /\ FbIdle
    /\ QueryIdle
    /\ OledIdle /\ DwellIdle /\ ScenarioIdle
    /\ \E t \in Tables, freq \in 0..(MaxFreq + 1), perc \in 0..MaxPerc :
          cpu = [pc |-> "call", freqs |-> t.freqs, ratios |-> t.ratios,
                 freq |-> freq, perc |-> perc,
                 out |-> [ratio |-> 0, power |-> 0, raised |-> FALSE,
                          i |-> -1]]

\* one call of get_cpu_power
CpuCall ==
    /\ cpu.pc = "call"
    /\ cpu' = [cpu EXCEPT
                 !.out = GetCpuPower(cpu.freqs, cpu.ratios, cpu.freq,
                                     cpu.perc),
                 !.pc = "done"]
    /\ UNCHANGED <<radio_vars, oled, dwell, scenario, fb>>

NextCpu == CpuCall

SpecCpu == InitCpu /\ [][NextCpu]_vars

\* get_cpu_power returned or raised
CpuDone == cpu.pc = "done"

(***************************************************************************)
(* ThreeGState.update under a configured iteration interval: one update    *)
(* without traffic of an object in FACH or DCH, one second after its last  *)
(* update.                                                                 *)
(***************************************************************************)
\* calibration times run from 1 to MaxCalibration seconds
MaxCalibration == 3
\* the dwell counter before the update runs from 0 to MaxDwell
MaxDwell == 4

\* PowerEstimator.ITERATION_INTERVAL as configured, in milliseconds
Intervals == {250, 500, 1000, 1500, 2000}

InitDwell ==
    /\ world = [max_time |-> 0, max_bytes |-> 0, uids |-> {}]
    /\ now = 0
    /\ sys_tx = 0
    /\ sys_rx = 0
    /\ uid_tx = [u \in Uids |-> 0]
    /\ uid_rx = [u \in Uids |-> 0]
    /\ provider = GetOperatorName
    /\ state = NewThreeGState(DchFachTime, FachIdleTime)
    /\ uid_states = EmptyMap
    /\ call = NoCall
    /\ result = IterationData
    /\ silent = 0
    /\ FbIdle
    /\ QueryIdle
    /\ OledIdle /\ CpuIdle /\ ScenarioIdle
    /\ \E interval \in Intervals,
          dch \in 1..MaxCalibration, fach \in 1..MaxCalibration,
          p \in {POWER_STATE_FACH, POWER_STATE_DCH}, n \in 0..MaxDwell :
          dwell = [pc |-> "update", interval |-> interval,
                   s |-> [NewThreeGState(dch, fach) EXCEPT
                            !.pwr_state = p, !.pwr_state_time = n,
                            !.update_time = 0, !.pkts = TRUE],
                   fach_threshold |-> 0, dch_threshold |-> 0,
                   out |-> NewThreeGState(dch, fach)]

\* one call of update, one second on, with the byte counters unchanged;
\* fach_threshold and dch_threshold are the right-hand sides of the
\* comparisons of lines 202-203 and 213 under the interval
DwellUpdate ==
    /\ dwell.pc = "update"
    /\ dwell' = [dwell EXCEPT
                   !.out = UpdateAt(dwell.s, dwell.s.update_time + 1,
                                    dwell.s.tx_bytes, dwell.s.rx_bytes,
                                    dwell.interval).st,
                   !.fach_threshold =
                       Threshold(dwell.s.fach_idle_time,
                                 TimeMult(dwell.interval)),
                   !.dch_threshold =
                       Threshold(dwell.s.dch_fach_time,
                                 TimeMult(dwell.interval)),
                   !.pc = "done"]
    /\ UNCHANGED <<radio_vars, oled, cpu, scenario, fb>>

NextDwell == DwellUpdate

SpecDwell == InitDwell /\ [][NextDwell]_vars

DwellDone == dwell.pc = "done"

(***************************************************************************)
(* A run of device-level updates, one per iteration at the 1000 ms         *)
(* interval: each iteration finds traffic or none, and the rounded clock   *)
(* one second on or, the loop running a little early, where it was.        *)
(***************************************************************************)
\* the scenario of the conformance section: the calibration, and which of
\* the ten iterations find traffic
ScenarioCalibration == [fach_idle_time |-> 5, dch_fach_time |-> 3]
ScenarioTraffic ==
    <<TRUE, TRUE, TRUE, FALSE, FALSE, FALSE, FALSE, FALSE, FALSE, TRUE>>

\* an initialized state in IDLE: constructed and updated once, at clock 0
ScenarioStart ==
    Update(NewThreeGState(ScenarioCalibration.dch_fach_time,
                          ScenarioCalibration.fach_idle_time), 0, 0, 0).st

InitScenario ==
    /\ world = [max_time |-> 0, max_bytes |-> 0, uids |-> {}]
    /\ now = 0
    /\ sys_tx = 0
    /\ sys_rx = 0
    /\ uid_tx = [u \in Uids |-> 0]
    /\ uid_rx = [u \in Uids |-> 0]
    /\ provider = GetOperatorName
    /\ state = NewThreeGState(DchFachTime, FachIdleTime)
    /\ uid_states = EmptyMap
    /\ call = NoCall
    /\ result = IterationData
    /\ silent = 0
    /\ FbIdle
    /\ QueryIdle
    /\ OledIdle /\ CpuIdle /\ DwellIdle
    /\ scenario = [pc |-> "run", s |-> ScenarioStart, t |-> 0, tx |-> 0,
                   traffic |-> <<>>, steady |-> TRUE, out |-> <<>>]

\* one iteration: the interface has sent a byte or not, the clock has moved
\* on or not, and update samples the counter.  traffic, steady (the clock
\* moved on at every iteration so far) and out (the power state at the end
\* of each iteration) are history.
ScenarioIteration ==
    /\ scenario.pc = "run"
    /\ Len(scenario.out) < Len(ScenarioTraffic)
    /\ \E traffic \in BOOLEAN, dt \in 0..1 :
          LET t == scenario.t + dt
              tx == scenario.tx + (IF traffic THEN 1 ELSE 0)
              r == Update(scenario.s, t, tx, 0)
          IN scenario' = [scenario EXCEPT
                            !.s = r.st, !.t = t, !.tx = tx,
                            !.traffic = Append(@, traffic),
                            !.steady = @ /\ dt = 1,
                            !.out = Append(@, r.st.pwr_state)]
    /\ UNCHANGED <<radio_vars, oled, cpu, dwell, fb>>

NextScenario == ScenarioIteration

SpecScenario == InitScenario /\ [][NextScenario]_vars

(***************************************************************************)
(* The claims                                                              *)
(***************************************************************************)
\* the last step was a call of calc_iteration
Called(c) == c.op = "calc_iteration"

\* the last step was a call that reached self._state.update (line 87): the
\* interface was on and both byte counters were read
Sampled(c) ==
    /\ Called(c)
    /\ c.net_state = DATA_CONNECTED
    /\ c.tx # READ_FAILED
    /\ c.rx # READ_FAILED

\* the interface counters moved since the device-level state sampled them
Traffic == sys_tx > state.tx_bytes \/ sys_rx > state.rx_bytes

\* iterations per second at the configured interval
IterationsPerSecond == 1000 \div ITERATION_INTERVAL

\* what the interface-off path is to leave behind
IsReset ==
    /\ state.pwr_state = POWER_STATE_IDLE
    /\ provider = NoProvider
    /\ uid_states = EmptyMap

\* C1, as stated: after a call of calc_iteration that found the data
\* connection not connected or the network type unsupported (neither UMTS
\* nor HSDPA), the device-level state is IDLE, the provider is cleared and
\* the per-owner map is empty.
C1_OffOrUnsupportedResets ==
    (Called(call)
     /\ (call.net_state # DATA_CONNECTED
         \/ call.net_type \notin {NETWORK_TYPE_UMTS, NETWORK_TYPE_HSDPA}))
    => IsReset

\* C1, amended: after a call of calc_iteration that found the data
\* connection not connected, whatever the network type, the device-level
\* state is IDLE, the provider is cleared and the per-owner map is empty.
C1_DisconnectedResets ==
    (Called(call) /\ call.net_state # DATA_CONNECTED) => IsReset

\* C1's case: a call found the connection gone while the device-level
\* state was FACH or DCH, the provider set and an owner tracked
C1_Witness ==
    /\ Called(call)
    /\ call.net_state # DATA_CONNECTED
    /\ call.before.pwr_state # POWER_STATE_IDLE
    /\ call.before.tracked # {}
    /\ IsReset

\* C2: an update of an initialized device-level state in IDLE that finds a
\* byte counter above the previous sample (there was one: an update came
\* before) leaves the state in FACH.
C2_IdleTrafficToFach ==
    [][(Sampled(call') /\ IsInitialized(state) /\ state.pkts
        /\ state.pwr_state = POWER_STATE_IDLE /\ Traffic)
       => state'.pwr_state = POWER_STATE_FACH]_vars

\* C3: an update of a device-level state in FACH that finds a byte counter
\* above the previous sample leaves the state in DCH.
C3_FachTrafficToDch ==
    [][(Sampled(call') /\ state.pwr_state = POWER_STATE_FACH /\ Traffic)
       => state'.pwr_state = POWER_STATE_DCH]_vars

\* C4: a state in FACH never moves to IDLE on an iteration earlier than the
\* one at which the samples without traffic in a row, counted since it
\* entered FACH or last saw traffic, number fach_idle_time times the
\* iterations per second.  Stated of a state whose last clocked sample found
\* traffic (its inactive time is zero), so that no sample the object missed
\* stands between the traffic and the move.
C4_FachIdleNotEarlier ==
    [][(Sampled(call') /\ state.pwr_state = POWER_STATE_FACH
        /\ state.inactive_time = 0
        /\ state'.pwr_state = POWER_STATE_IDLE)
       => silent + 1 >= state.fach_idle_time * IterationsPerSecond]_vars

\* C5: a state in DCH moves to FACH exactly on the iteration at which the
\* samples without traffic in a row, counted since its last traffic, number
\* dch_fach_time times the iterations per second, and no update moves it
\* from DCH to IDLE.
C5_DchFachExactly ==
    [][(Sampled(call') /\ state.pwr_state = POWER_STATE_DCH)
       => /\ state'.pwr_state # POWER_STATE_IDLE
          /\ (state'.pwr_state = POWER_STATE_FACH)
             <=> (~Traffic
                  /\ silent + 1 = state.dch_fach_time * IterationsPerSecond)
      ]_vars

\* C6: an update that finds a byte counter above the previous sample while
\* the state is FACH or DCH leaves the dwell counter at zero.
C6_TrafficResetsDwell ==
    [][(Sampled(call')
        /\ state.pwr_state \in {POWER_STATE_FACH, POWER_STATE_DCH}
        /\ Traffic)
       => state'.pwr_state_time = 0]_vars

\* C7: is_stale is false of every object whose power state is not IDLE,
\* whatever the time since its last update and its inactive time.
C7_ActiveNeverStale ==
    (q_stale # "none" /\ q_state.pwr_state # POWER_STATE_IDLE)
    => q_stale = "fresh"

\* the ceiling of ten seconds, in seconds, the unit of the clock
TenSeconds == 10

\* C8: is_stale is true of every object in IDLE whose last update lies
\* longer back than the lesser of ten seconds and its inactive time, all
\* three in seconds.
C8_IdleStaleAfterTenSeconds ==
    (q_stale # "none" /\ q_state.pwr_state = POWER_STATE_IDLE
     /\ q_now - q_state.update_time > Min(TenSeconds, q_state.inactive_time))
    => q_stale = "stale"

C10_ReadFailureKeepsSysRecord ==
    (Called(call) /\ (call.tx = READ_FAILED \/ call.rx = READ_FAILED))
    => (~result.raised /\ result.sys # {})

\* a brightness in the valid range [0,255]
ValidBrightness(b) == 0 <= b /\ b <= 255

\* the zero pixel power
IsZero(v) == v.num = 0

\* C11: an iteration whose brightness reading lies outside [0,255] returns
\* a zero/empty usage, and one whose reading lies inside [0,255] returns a
\* snapshot with a system-wide record.
C11_BrightnessValidInRange ==
    OledDone =>
       IF ValidBrightness(oled.brightness)
       THEN oled.result.sys # {}
       ELSE /\ oled.result.uid = <<>>
            /\ oled.result.sys \subseteq {OLEDUsageDefault}

\* C12: an iteration during which the screen flag was off throughout
\* returns a snapshot whose system-wide record marks the screen off with
\* zero pixel power, and that holds no per-owner record.
C12_ScreenOffRecord ==
    (OledDone /\ ~oled.seen_on) =>
       /\ oled.result.uid = <<>>
       /\ oled.result.sys # {}
       /\ \A u \in oled.result.sys : ~Truthy(u.screen_on) /\ IsZero(u.pix_pwr)

\* C13: an iteration during which the screen flag was on throughout, with
\* a brightness in [0,255], returns a snapshot with exactly one per-owner
\* record, keyed by the foreground owner; that record and the system-wide
\* one mark the screen on, carry the brightness read in the brightness
\* field and the estimated pixel power in the pixel-power field.
C13_ScreenOnRecord ==
    (OledDone /\ ~oled.seen_off /\ ValidBrightness(oled.brightness)) =>
       LET usage == OLEDUsage(True, Num(oled.brightness), oled.px_pwr)
       IN /\ oled.result.uid = <<[owner |-> oled.fg, usage |-> usage]>>
          /\ oled.fg \in ForegroundUids
          /\ oled.result.sys = {usage}

\* C14: the pixel power the screen monitor reports is never negative: the
\* value computed for the records is zero where the accumulated sum is not
\* positive, and no record carries a negative pixel power.
C14_PixelPowerNeverNegative ==
    OledDone =>
       /\ oled.px_pwr.num >= 0
       /\ \A u \in oled.result.sys : u.pix_pwr.num >= 0
       /\ \A i \in DOMAIN oled.result.uid :
             oled.result.uid[i].usage.pix_pwr.num >= 0

\* C15: on a table of at least two ascending breakpoints, a query equal to
\* a breakpoint (the first and the last included) gives exactly that
\* breakpoint's ratio, and the lookup indexes the tables at i - 1 and i
\* inside 0 .. len - 1.
C15_BreakpointGivesItsRatio ==
    (CpuDone /\ Len(cpu.freqs) >= 2) =>
       \A k \in 0..(Len(cpu.freqs) - 1) :
          cpu.freq = At(cpu.freqs, k) =>
             /\ ~cpu.out.raised
             /\ cpu.out.ratio = At(cpu.ratios, k)
             /\ 1 <= cpu.out.i /\ cpu.out.i <= Len(cpu.freqs) - 1

\* C16: a query below the first breakpoint gives the first ratio, a query
\* above the last breakpoint gives the last ratio, a table of one
\* breakpoint gives that breakpoint's ratio and an empty table gives zero.
C16_ClampedAtTheBoundaries ==
    CpuDone =>
       /\ ~cpu.out.raised
       /\ Len(cpu.freqs) = 0 => cpu.out.power = 0
       /\ Len(cpu.freqs) = 1 => cpu.out.ratio = At(cpu.ratios, 0)
       /\ (Len(cpu.freqs) >= 2 /\ cpu.freq < At(cpu.freqs, 0))
             => cpu.out.ratio = At(cpu.ratios, 0)
       /\ (Len(cpu.freqs) >= 2 /\ cpu.freq > PyAt(cpu.freqs, -1))
             => cpu.out.ratio = PyAt(cpu.ratios, -1)

\* the object of the dwell query was demoted by the update
Demoted == dwell.out.pwr_state # dwell.s.pwr_state

\* the calibration time that governs the object's state
DwellTime(s) ==
    IF s.pwr_state = POWER_STATE_FACH THEN s.fach_idle_time
    ELSE s.dch_fach_time

\* C17: under an iteration interval that evenly divides one second the
\* demotion thresholds are fach_idle_time and dch_fach_time times
\* 1000 / interval iterations (the calibration times themselves at 1000
\* ms), an inactive update demotes exactly when the dwell counter reaches
\* that threshold, and under no interval is a threshold zero iterations.
C17_ThresholdsScaledByInterval ==
    DwellDone =>
       /\ dwell.fach_threshold > 0
       /\ dwell.dch_threshold > 0
       /\ (1000 % dwell.interval = 0) =>
             LET per_second == 1000 \div dwell.interval
             IN /\ dwell.fach_threshold
                      = dwell.s.fach_idle_time * per_second
                /\ dwell.dch_threshold
                      = dwell.s.dch_fach_time * per_second
                /\ Demoted <=> (dwell.s.pwr_state_time + 1
                                   >= DwellTime(dwell.s) * per_second)

\* the snapshot's system-wide record marks the screen on
SysMarksScreenOn(res) == \E u \in res.sys : Truthy(u.screen_on)

\* the snapshot has a per-owner record exactly if its system-wide record
\* marks the screen on
OwnerRecordIffScreenOn(res) == (res.uid # <<>>) <=> SysMarksScreenOn(res)

\* C18, as stated: every iteration reads the screen flag exactly once, and
\* its snapshot has a per-owner record exactly if its system-wide record
\* marks the screen on.
C18_FlagReadExactlyOnce ==
    OledDone => (oled.reads = 1 /\ OwnerRecordIffScreenOn(oled.result))

\* C18, amended: the flag is read only with the lock held and at most once
\* per iteration, exactly once in an iteration that gets past the
\* brightness test; the iteration acts on the value it read (it attributes
\* to an owner exactly if that value was on), and its snapshot has a
\* per-owner record exactly if its system-wide record marks the screen on.
C18_FlagReadAtMostOnce ==
    /\ oled.pc = "read" => oled.lock = "monitor"
    /\ OledDone =>
          /\ oled.reads <= 1
          /\ ~BrightnessUnavailable(oled.brightness) => oled.reads = 1
          /\ (oled.result.uid # <<>>) <=> oled.screen
          /\ OwnerRecordIffScreenOn(oled.result)

\* C18's case: the writer turned the flag off while an iteration that had
\* read it as on was running, and the iteration attributed all the same
C18_Witness ==
    /\ OledDone
    /\ oled.reads = 1
    /\ oled.screen
    /\ oled.seen_off
    /\ ~oled.screen_on
    /\ oled.result.uid # <<>>
    /\ SysMarksScreenOn(oled.result)

ScenarioStates ==
    <<POWER_STATE_FACH, POWER_STATE_DCH, POWER_STATE_DCH, POWER_STATE_DCH,
      POWER_STATE_DCH, POWER_STATE_FACH, POWER_STATE_FACH, POWER_STATE_FACH,
      POWER_STATE_FACH, POWER_STATE_DCH>>

\* C20: with fach_idle_time = 5 and dch_fach_time = 3 at the 1000 ms
\* interval, traffic in iterations 1-3, silence in 4-9 and traffic in 10
\* leave the device-level state, at the end of iterations 1 to 10, in
\* FACH, DCH, DCH, DCH, DCH, FACH, FACH, FACH, FACH, DCH.
C20_ScenarioSequence ==
    scenario.traffic = ScenarioTraffic => scenario.out = ScenarioStates

\* C21: for every screen of at least NSAMPLES pixels and every outcome of
\* the jitter, sample i lies in its stripe, factor * i <= offset <
\* factor * (i + 1) with factor = (width * height) // NSAMPLES, hence
\* inside the frame; and the list chosen at construction is the list after
\* any number of iterations.
C21_SamplesInsideStripe ==
    SamplesReady =>
       LET factor == Factor(fb.width, fb.height)
       IN /\ Len(fb.fb_samples) = NSAMPLES
          /\ \A i \in 0..(NSAMPLES - 1) :
                /\ factor * i <= At(fb.fb_samples, i)
                /\ At(fb.fb_samples, i) < factor * (i + 1)
                /\ At(fb.fb_samples, i) < fb.width * fb.height
          /\ fb.fb_samples = fb.chosen

\* the last step was an iteration that walked the list and skipped the
\* tracked owner u at the staleness test (line 103-106)
SkippedAsStale(u) ==
    /\ Sampled(call)
    /\ ~result.raised
    /\ u \in DOMAIN uid_states
    /\ u \notin result.read

\* the last step was an iteration that read the counters of owner u
CountersRead(u) == Called(call) /\ u \in result.read

Promoted(pwr_state) ==
    IF pwr_state = POWER_STATE_IDLE THEN POWER_STATE_FACH
    ELSE POWER_STATE_DCH

\* the update from s to s2 treated what it saw as activity
TreatedAsActivity(s, s2) ==
    /\ s2.inactive_time = 0
    /\ s2.pwr_state = Promoted(s.pwr_state)

\* the update from s to s2 left the sampled counters where they were, so
\* that a later update still finds the increase
LeftForLater(s, s2) ==
    /\ s2.tx_bytes = s.tx_bytes
    /\ s2.rx_bytes = s.rx_bytes

\* C23: an update that finds a byte counter above the previous sample
\* treats the increase as activity (inactive time reset, promotion rule
\* applied) or leaves it to be found by a later update, also when it falls
\* in the same rounded second as the update before it.
C23_NoTrafficDropped ==
    [][(Sampled(call') /\ IsInitialized(state) /\ state.pkts /\ Traffic)
       => (TreatedAsActivity(state, state') \/ LeftForLater(state, state'))
      ]_vars

\* C24: in every reachable tracking state, device-level or per-owner,
\* across any sequence of update and interface_off calls, the dwell counter
\* is zero whenever the power state is IDLE.
C24_IdleDwellZero ==
    /\ state.pwr_state = POWER_STATE_IDLE => state.pwr_state_time = 0
    /\ \A u \in DOMAIN uid_states :
          uid_states[u].pwr_state = POWER_STATE_IDLE
             => uid_states[u].pwr_state_time = 0

\* the last step was a call that found the interface on: it did not take
\* the interface-off path of lines 65-77
Connected(c) ==
    Called(c) /\ ~InterfaceIsOff(c.net_state, CoerceNetType(c.net_type))

\* every record of the snapshot carries the provider name prov
RecordsCarry(res, prov) ==
    /\ \A usage \in res.sys : usage.provider = prov
    /\ \A i \in DOMAIN res.uid : res.uid[i].usage.provider = prov

\* C25: every system-wide and per-owner record of an iteration that found
\* the interface connected carries the operator's provider name, also
\* after the connection was lost and regained: no such record has an
\* empty provider.
C25_ConnectedRecordsCarryProvider ==
    Connected(call) => RecordsCarry(result, GetOperatorName)

\* the level of a power state: IDLE 0, FACH 1, DCH 2
Level(pwr_state) ==
    IF pwr_state = POWER_STATE_IDLE THEN 0
    ELSE IF pwr_state = POWER_STATE_FACH THEN 1 ELSE 2

\* the distance between two power states, in levels
Levels(p, q) ==
    IF Level(p) > Level(q) THEN Level(p) - Level(q) ELSE Level(q) - Level(p)

\* C26: a call of update moves the power state of the device-level state
\* by at most one level, never from IDLE to DCH nor from DCH to IDLE, and
\* a step that takes the state from DCH to IDLE is a call of interface_off.
C26_OneLevelPerUpdate ==
    [][/\ Sampled(call')
          => Levels(state.pwr_state, state'.pwr_state) <= 1
       /\ (state.pwr_state = POWER_STATE_DCH
           /\ state'.pwr_state = POWER_STATE_IDLE)
          => (Called(call') /\ ~Connected(call'))]_vars

\* C26's case: an update has taken the state up to DCH, and a later call
\* of interface_off took it from DCH to IDLE in one step
C26_Witness ==
    /\ Called(call)
    /\ ~Connected(call)
    /\ call.before.pwr_state = POWER_STATE_DCH
    /\ state.pwr_state = POWER_STATE_IDLE

====
